---- MODULE Spec2Model ----
(***************************************************************************)
(* The memory-statistics collectors of node_exporter: the line-oriented    *)
(* meminfo parser, the per-NUMA-node meminfo and numastat parsers, the     *)
(* native (Darwin) aggregate, and the two Update methods that send the     *)
(* resulting metrics to the sink channel.                                  *)
(*                                                                         *)
(* A Go string is a sequence of characters, so that the string operations  *)
(* of the code (strings.Fields, the slice that drops the colon, the        *)
(* parenthesis regexp, strings.HasSuffix, strconv.ParseFloat) are computed *)
(* character by character. A character is a one-character string; the      *)
(* three white-space characters that have no escape here are written by    *)
(* name: "VT" (U+000B), "NEL" (U+0085), "NBSP" (U+00A0).                   *)
(*                                                                         *)
(* A float64 is held exactly, as sign * m * 2^e with m odd and below 2^53, *)
(* or as an infinity or NaN; strconv.ParseFloat rounds to it as IEEE 754   *)
(* does, subnormals and the overflow to a range error included.            *)
(***************************************************************************)
EXTENDS Integers, Sequences, FiniteSets, Bags, TLC

VARIABLES collector, pc, stream, nread, memInfo, numaInfo, numaStat, metrics,
          nodes, idx, nodeNumber, files, defers, ret, ch, metricDescs, result,
          todo, sending, nsent

\* collector    which Update runs: "none", "meminfo" (Linux), "native" (Darwin), "numa"
\* pc           where the pass stands inside Update, getMemInfo[Numa] and the parsers
\* stream       the lines the scanner has given of the reader being parsed
\* nread        the lines read from all readers of the pass
\* memInfo      the map of parseMemInfo / getMemInfo, as its set of <<key, value>>
\* numaInfo     the slice parseMemInfoNuma builds
\* numaStat     the slice parseMemInfoNumaStat builds
\* metrics      the slice getMemInfoNuma builds
\* nodes, idx   the glob result and the position of the loop over it
\* nodeNumber   the node id taken from the directory name
\* files        the files opened in the pass, each with the number of Close calls
\* defers       the deferred Close calls (indices into files), not yet run
\* ret          what getMemInfo / getMemInfoNuma returned to Update
\* ch           the metrics sent to the channel so far, as a bag (the map of
\*              the non-NUMA path is ranged over in no fixed order)
\* todo         the entries of the map the range loop of meminfoCollector.Update
\*              has not come to yet
\* sending      the metric of the channel send Update stands at, if any
\* nsent        the records of metrics the loop of meminfoNumaCollector.Update
\*              has sent
\* metricDescs  the names whose descriptor meminfoNumaCollector has cached
\* result       how Update ended: "running", "ok", "error", "panic"
vars == <<collector, pc, stream, nread, memInfo, numaInfo, numaStat, metrics,
          nodes, idx, nodeNumber, files, defers, ret, ch, metricDescs, result,
          todo, sending, nsent>>

\* Lines read from all the readers of one collection pass.
MaxLines == 2
\* NUMA node directories the glob can return.
MaxNodes == 2
\* Length of the raw keys enumerated exhaustively (SpecKeys).
MaxKeyLen == 4

----------------------------------------------------------------------------
(* String helpers of the Go standard library, as the code uses them.       *)

Min(S) == CHOOSE x \in S : \A y \in S : x <= y
Max(S) == CHOOSE x \in S : \A y \in S : x >= y

\* unicode.IsSpace on the characters below U+0100, the white space that
\* strings.Fields and strings.TrimSpace split and trim on.
IsSpace(c) == c \in {"\t", "\n", "VT", "\f", "\r", " ", "NEL", "NBSP"}

DigitChars == <<"0","1","2","3","4","5","6","7","8","9">>

IsDigit(c) == \E d \in 1..Len(DigitChars) : DigitChars[d] = c

DigitVal(c) == (CHOOSE d \in 1..Len(DigitChars) : DigitChars[d] = c) - 1

\* strings.Fields: the maximal runs of non-space characters.
RECURSIVE Fields(_)
Fields(s) ==
    IF s = <<>> THEN <<>>
    ELSE IF IsSpace(s[1]) THEN Fields(Tail(s))
    ELSE LET stops == {i \in 1..Len(s) : IsSpace(s[i])}
             n == IF stops = {} THEN Len(s) ELSE Min(stops) - 1
         IN  <<SubSeq(s, 1, n)>> \o Fields(SubSeq(s, n + 1, Len(s)))

\* strings.TrimSpace
TrimSpace(s) ==
    LET keep == {i \in 1..Len(s) : ~IsSpace(s[i])}
    IN  IF keep = {} THEN <<>> ELSE SubSeq(s, Min(keep), Max(keep))

\* strings.TrimRight(s, c) for a one-character cutset.
TrimRight(s, c) ==
    LET keep == {i \in 1..Len(s) : s[i] # c}
    IN  IF keep = {} THEN <<>> ELSE SubSeq(s, 1, Max(keep))

\* strings.HasSuffix, mutated: the suffix found anywhere in the string.
HasSuffixAnywhere(s, suffix) ==
    \E i \in 1..Len(s) :
        /\ i + Len(suffix) - 1 <= Len(s)
        /\ SubSeq(s, i, i + Len(suffix) - 1) = suffix

\* strings.HasSuffix
HasSuffix(s, suffix) ==
    /\ Len(s) >= Len(suffix)
    /\ SubSeq(s, Len(s) - Len(suffix) + 1, Len(s)) = suffix

UpperChars == <<"A","B","C","D","E","F","G","H","I","J","K","L","M","N","O","P","Q","R","S","T","U","V","W","X","Y","Z">>

LowerChars == <<"a","b","c","d","e","f","g","h","i","j","k","l","m","n","o","p","q","r","s","t","u","v","w","x","y","z">>

\* lower(c) of strconv, as far as a comparison with a letter can tell.
lower(c) ==
    IF \E i \in 1..Len(UpperChars) : UpperChars[i] = c
    THEN LowerChars[CHOOSE i \in 1..Len(UpperChars) : UpperChars[i] = c]
    ELSE c

ToLower(s) == [i \in 1..Len(s) |-> lower(s[i])]

IsHexLetter(c) == lower(c) \in {"a", "b", "c", "d", "e", "f"}

HexVal(c) ==
    IF IsDigit(c) THEN DigitVal(c)
    ELSE 9 + (CHOOSE i \in 1..6 : LowerChars[i] = lower(c))

\* The number of bits of m, 0 <= m < 2^15.
BitLen(m) == Cardinality({j \in 0..14 : m >= 2 ^ j})

\* Natural numbers of any size, as the conversion of strconv needs them: a
\* sequence of digits in base 2^15 = 32768, lowest digit first, with no zero
\* digit at the high end; <<>> is zero. The loops over digits and bits are
\* written by halving, so that their nesting stays shallow.
RECURSIVE BigOf(_)
BigOf(n) == IF n = 0 THEN <<>> ELSE <<n % 32768>> \o BigOf(n \div 32768)

\* The sequence without its zero digits at the high end.
BigTrim(x) ==
    SubSeq(x, 1, Len(x) - Cardinality({i \in 1..Len(x) :
                                          \A j \in i..Len(x) : x[j] = 0}))

BigDigit(x, i) == IF i <= Len(x) THEN x[i] ELSE 0

RECURSIVE MulAddRange(_, _, _, _, _)

MulAddJoin(low, high) == [d |-> low.d \o high.d, c |-> high.c]

MulAddHigh(x, k, low, lo, hi) == MulAddJoin(low, MulAddRange(x, k, low.c, lo, hi))

\* The digits lo..hi of x * k + c and the carry out of them, c the carry in.
MulAddRange(x, k, c, lo, hi) ==
    IF lo = hi
    THEN [d |-> <<(x[lo] * k + c) % 32768>>, c |-> (x[lo] * k + c) \div 32768]
    ELSE MulAddHigh(x, k, MulAddRange(x, k, c, lo, (lo + hi) \div 2),
                    (lo + hi) \div 2 + 1, hi)

MulAddCarry(r) == IF r.c = 0 THEN r.d ELSE Append(r.d, r.c)

\* x * k + c for 0 < k < 2^15 and 0 <= c < 2^15.
BigMulAdd(x, k, c) ==
    IF x = <<>> THEN (IF c = 0 THEN <<>> ELSE <<c>>)
    ELSE MulAddCarry(MulAddRange(x, k, c, 1, Len(x)))

BigIsOdd(x) == x # <<>> /\ x[1] % 2 = 1

BigBitLen(x) == IF x = <<>> THEN 0 ELSE 15 * (Len(x) - 1) + BitLen(x[Len(x)])

\* x * 2^n
BigShl(x, n) ==
    IF x = <<>> THEN <<>>
    ELSE [i \in 1..(n \div 15) |-> 0] \o BigMulAdd(x, 2 ^ (n % 15), 0)

\* x \div 2^j for j < 15
BigShrBits(x, j) ==
    BigTrim([i \in 1..Len(x) |->
                x[i] \div 2 ^ j + (BigDigit(x, i + 1) % 2 ^ j) * 2 ^ (15 - j)])

\* x \div 2^n
BigShr(x, n) ==
    IF n \div 15 >= Len(x) THEN <<>>
    ELSE BigShrBits(SubSeq(x, n \div 15 + 1, Len(x)), n % 15)

\* The lowest n bits of x are zero.
BigLowZero(x, n) == BigShl(BigShr(x, n), n) = x

\* x >= y
BigGeq(x, y) ==
    IF Len(x) # Len(y) THEN Len(x) > Len(y)
    ELSE \A i \in 1..Len(x) :
            x[i] >= y[i] \/ \E j \in (i + 1)..Len(x) : x[j] # y[j]

RECURSIVE SubRange(_, _, _, _, _)

SubJoin(low, high) == [d |-> low.d \o high.d, b |-> high.b]

SubHigh(x, y, low, lo, hi) == SubJoin(low, SubRange(x, y, low.b, lo, hi))

\* The digits lo..hi of x - y and the borrow out of them, b the borrow in.
SubRange(x, y, b, lo, hi) ==
    IF lo = hi
    THEN [d |-> <<(x[lo] - BigDigit(y, lo) - b) % 32768>>,
          b |-> IF x[lo] - BigDigit(y, lo) - b < 0 THEN 1 ELSE 0]
    ELSE SubHigh(x, y, SubRange(x, y, b, lo, (lo + hi) \div 2),
                 (lo + hi) \div 2 + 1, hi)

\* x - y for x >= y
BigSub(x, y) == IF x = <<>> THEN <<>> ELSE BigTrim(SubRange(x, y, 0, 1, Len(x)).d)

\* x * 5^k
RECURSIVE BigMulPow5(_, _)
BigMulPow5(x, k) ==
    IF x = <<>> \/ k = 0 THEN x
    ELSE IF k <= 6 THEN BigMulAdd(x, 5 ^ k, 0)
    ELSE BigMulPow5(BigMulPow5(x, k \div 2), k - k \div 2)

\* The number of zero bits at the low end of x, x > 0.
BigTrailingZeros(x) ==
    15 * Cardinality({i \in 1..Len(x) : \A j \in 1..i : x[j] = 0})
        + Cardinality({b \in 1..14 :
              BigDigit(x, 1 + Cardinality({i \in 1..Len(x) : \A j \in 1..i : x[j] = 0}))
                  % 2 ^ b = 0})

\* A float64 that is a number: (-1)^neg * m * 2^e with m odd, or m zero and
\* e = 0, so that equal numbers are equal records. The sign of a zero is
\* kept, as float64 keeps it.
Num(neg, m, e) == [kind |-> "num", neg |-> neg, m |-> m, e |-> e]

Inf(neg) == [kind |-> "inf", neg |-> neg, m |-> <<>>, e |-> 0]

NaN == [kind |-> "nan", neg |-> FALSE, m |-> <<>>, e |-> 0]

\* The float64 of (-1)^neg * m * 2^e, where m has at most 53 bits and
\* e >= -1074: the infinity when the number is 2^1024 or more.
MakeFloat(neg, m, e) ==
    IF m = <<>> THEN Num(neg, <<>>, 0)
    ELSE IF BigBitLen(m) + e > 1024 THEN Inf(neg)
    ELSE Num(neg, BigShr(m, BigTrailingZeros(m)), e + BigTrailingZeros(m))

\* float64(n) of an integer n.
F(n) == MakeFloat(n < 0, BigOf(IF n < 0 THEN 0 - n ELSE n), 0)

\* Rounding to nearest, ties to even, with the d low bits of Q dropped:
\* up when the highest dropped bit is set and either something lower is not
\* zero or the kept part is odd. sticky tells that the number is a little
\* more than Q.
RoundsUp(Q, sticky, d) ==
    /\ BigIsOdd(BigShr(Q, d - 1))
    /\ sticky \/ ~BigLowZero(Q, d - 1) \/ BigIsOdd(BigShr(Q, d))

RoundAt(neg, Q, sticky, w, d) ==
    IF d <= 0 THEN MakeFloat(neg, Q, w)
    ELSE IF RoundsUp(Q, sticky, d) THEN MakeFloat(neg, BigMulAdd(BigShr(Q, d), 1, 1), w + d)
    ELSE MakeFloat(neg, BigShr(Q, d), w + d)

\* The float64 nearest to (Q + f) * 2^w, Q > 0, 0 <= f < 1, f > 0 iff sticky:
\* 53 bits are kept, fewer where the number is subnormal (the lowest bit of a
\* float64 is 2^-1074), and the infinity is the result from 2^1024 - 2^970 on.
RoundFloat(neg, Q, sticky, w) ==
    RoundAt(neg, Q, sticky, w, Max({BigBitLen(Q) - 1 + w - 52, 0 - 1074}) - w)

\* One bit of the quotient r / D, for r < 2 * D: the bit is appended to q,
\* and r becomes twice what is left of it.
DivStep(st, D) ==
    IF BigGeq(st.r, D)
    THEN [r |-> BigMulAdd(BigSub(st.r, D), 2, 0), q |-> BigMulAdd(st.q, 2, 1)]
    ELSE [r |-> BigMulAdd(st.r, 2, 0), q |-> BigMulAdd(st.q, 2, 0)]

\* n bits of the quotient, n > 0: zeros once nothing is left of r.
RECURSIVE DivBits(_, _, _)
DivBits(st, D, n) ==
    IF st.r = <<>> THEN [r |-> <<>>, q |-> BigShl(st.q, n)]
    ELSE IF n = 1 THEN DivStep(st, D)
    ELSE DivBits(DivBits(st, D, n \div 2), D, n - n \div 2)

\* The division ends with a remainder when r is not zero.
RoundQuotient(neg, st, w) == RoundFloat(neg, st.q, st.r # <<>>, w)

\* The float64 nearest to N / D * 2^s: N and D are brought to the same bit
\* length and 56 bits of the quotient are taken, of which the highest or the
\* one below it is set.
DivFloat(neg, N, D, s) ==
    RoundQuotient(neg,
                  DivBits([r |-> BigShl(N, Max({0, BigBitLen(D) - BigBitLen(N)})),
                           q |-> <<>>],
                          BigShl(D, Max({0, BigBitLen(N) - BigBitLen(D)})), 56),
                  s + BigBitLen(N) - BigBitLen(D) - 55)

\* The float64 nearest to M * 10^E, where M has nd decimal digits: a number
\* of 10^310 or more is beyond the largest float64, one below 10^-330 is
\* below half the smallest.
DecFloat(neg, M, nd, E) ==
    IF M = <<>> THEN Num(neg, <<>>, 0)
    ELSE IF nd + E > 310 THEN Inf(neg)
    ELSE IF nd + E < 0 - 330 THEN Num(neg, <<>>, 0)
    ELSE IF E >= 0 THEN RoundFloat(neg, BigMulPow5(M, E), FALSE, E)
    ELSE DivFloat(neg, M, BigMulPow5(<<1>>, 0 - E), E)

\* The float64 nearest to M * 2^s.
HexFloat(neg, M, s) ==
    IF M = <<>> THEN Num(neg, <<>>, 0) ELSE RoundFloat(neg, M, FALSE, s)

\* fv *= 1024 on a float64: exact on a number, subnormal or not, but for the
\* overflow to an infinity; infinities, NaN and zeros stay what they are.
Mul1024(v) ==
    IF v.kind # "num" \/ v.m = <<>> THEN v
    ELSE IF BigBitLen(v.m) + v.e + 10 > 1024 THEN Inf(v.neg)
    ELSE [v EXCEPT !.e = @ + 10]


IsNeg(s) == s # <<>> /\ s[1] = "-"

\* The token after its optional sign.
StripSign(s) == IF s # <<>> /\ s[1] \in {"+", "-"} THEN Tail(s) ELSE s

\* special() of strconv: the token without its sign is inf or infinity,
\* or the whole token is nan, in any case of the letters.
IsInfToken(s) == ToLower(s) \in {<<"i","n","f">>, <<"i","n","f","i","n","i","t","y">>}

IsMantChar(c, hex) == c = "_" \/ c = "." \/ IsDigit(c) \/ (hex /\ IsHexLetter(c))

\* The mantissa run of readFloat: digits (hexadecimal ones after 0x),
\* underscores and one point; the loop stops at a second point and at any
\* other character.
MantLen(body, hex) ==
    LET stop == {i \in 1..Len(body) :
                    \/ ~IsMantChar(body[i], hex)
                    \/ body[i] = "." /\ \E j \in 1..(i - 1) : body[j] = "."}
    IN  IF stop = {} THEN Len(body) ELSE Min(stop) - 1

\* The mantissa loop of readFloat over the characters lo..hi of the run:
\* acc * base + digit at every digit; zeros before the first other digit
\* leave the mantissa at zero.
RECURSIVE MantRange(_, _, _, _, _)
MantRange(acc, s, base, lo, hi) ==
    IF lo > hi THEN acc
    ELSE IF acc = <<>> /\ \A i \in lo..hi : s[i] \in {"0", "_", "."} THEN <<>>
    ELSE IF lo = hi
         THEN (IF s[lo] \in {"_", "."} THEN acc
               ELSE BigMulAdd(acc, base, HexVal(s[lo])))
    ELSE MantRange(MantRange(acc, s, base, lo, (lo + hi) \div 2),
                   s, base, (lo + hi) \div 2 + 1, hi)

\* The integer the digits of the mantissa run spell in the base.
MantValue(s, base) == MantRange(<<>>, s, base, 1, Len(s))

\* The digits of the mantissa run from its first digit that is not zero.
SigDigits(s) ==
    Cardinality({i \in 1..Len(s) :
                    /\ s[i] \notin {"_", "."}
                    /\ \E j \in 1..i : s[j] \notin {"_", ".", "0"}})

\* The digits of the mantissa run after its point.
FracDigits(s) ==
    Cardinality({i \in 1..Len(s) : s[i] # "_" /\ \E j \in 1..(i - 1) : s[j] = "."})

\* The exponent loop of readFloat: e = e*10 + digit while e < 10000.
RECURSIVE ExpValue(_, _)
ExpValue(s, e) ==
    IF s = <<>> \/ e >= 10000 THEN e
    ELSE ExpValue(Tail(s), IF s[1] = "_" THEN e ELSE e * 10 + DigitVal(s[1]))

\* The loop of underscoreOK: saw is "^" at the start, "0" after a digit or
\* the base prefix, "_" after an underscore, "!" after anything else.
RECURSIVE underscoreScan(_, _, _)
underscoreScan(s, saw, hex) ==
    IF s = <<>> THEN saw # "_"
    ELSE IF IsDigit(s[1]) \/ (hex /\ IsHexLetter(s[1]))
         THEN underscoreScan(Tail(s), "0", hex)
    ELSE IF s[1] = "_" THEN saw = "0" /\ underscoreScan(Tail(s), "_", hex)
    ELSE saw # "_" /\ underscoreScan(Tail(s), "!", hex)

HasBasePrefix(t) == Len(t) >= 2 /\ t[1] = "0" /\ lower(t[2]) \in {"b", "o", "x"}

\* underscoreOK of strconv: an underscore stands only between digits, or
\* between the base prefix and a digit.
underscoreOK(s) ==
    IF HasBasePrefix(StripSign(s))
    THEN underscoreScan(SubSeq(StripSign(s), 3, Len(StripSign(s))), "0",
                        lower(StripSign(s)[2]) = "x")
    ELSE underscoreScan(StripSign(s), "^", FALSE)

SyntaxError == [syntax |-> TRUE, fv |-> Inf(FALSE)]

\* The end of readFloat: the mantissa run mant and the exponent e are read
\* to the end of the token s. There must be a digit in the mantissa, and the
\* underscores must stand where underscoreOK has them.
readFloatValue(s, neg, hex, mant, e) ==
    IF \/ \A i \in 1..Len(mant) : mant[i] \in {"_", "."}
       \/ (\E i \in 1..Len(s) : s[i] = "_") /\ ~underscoreOK(s)
    THEN SyntaxError
    ELSE [syntax |-> FALSE,
          fv |-> IF hex
                 THEN HexFloat(neg, MantValue(mant, 16), e - 4 * FracDigits(mant))
                 ELSE DecFloat(neg, MantValue(mant, 10), SigDigits(mant),
                               e - FracDigits(mant))]

\* The exponent of readFloat, after its letter and its sign: a digit, then
\* digits and underscores to the end of the token.
readFloatExpDigits(s, neg, hex, mant, eneg, ds) ==
    IF ds = <<>> \/ ~IsDigit(ds[1])
       \/ \E i \in 1..Len(ds) : ~IsDigit(ds[i]) /\ ds[i] # "_"
    THEN SyntaxError
    ELSE readFloatValue(s, neg, hex, mant,
                        IF eneg THEN 0 - ExpValue(ds, 0) ELSE ExpValue(ds, 0))

\* What follows the mantissa run in readFloat: nothing (a hexadecimal
\* mantissa must have its exponent), or the exponent, e for a decimal and p
\* for a hexadecimal mantissa.
readFloatExp(s, neg, hex, mant, rem) ==
    IF rem = <<>> THEN (IF hex THEN SyntaxError ELSE readFloatValue(s, neg, hex, mant, 0))
    ELSE IF lower(rem[1]) # (IF hex THEN "p" ELSE "e") THEN SyntaxError
    ELSE readFloatExpDigits(s, neg, hex, mant, IsNeg(Tail(rem)), StripSign(Tail(rem)))

\* The mantissa of readFloat in the token body that follows sign and prefix.
readFloatMant(s, neg, hex, body) ==
    readFloatExp(s, neg, hex, SubSeq(body, 1, MantLen(body, hex)),
                 SubSeq(body, MantLen(body, hex) + 1, Len(body)))

\* The base prefix of readFloat: 0x with something after it.
IsHexPrefix(r) == Len(r) > 2 /\ r[1] = "0" /\ lower(r[2]) = "x"

\* readFloat of strconv on the whole token: an optional sign, an optional
\* 0x, the mantissa run with at least one digit, and an exponent (e for a
\* decimal mantissa; p, required, for a hexadecimal one) of an optional sign
\* and digits. syntax is FALSE when the token is such a literal to its end.
readFloat(s) ==
    IF IsHexPrefix(StripSign(s))
    THEN readFloatMant(s, IsNeg(s), TRUE, SubSeq(StripSign(s), 3, Len(StripSign(s))))
    ELSE readFloatMant(s, IsNeg(s), FALSE, StripSign(s))

\* The float64 of a literal readFloat has read: a literal that rounds beyond
\* the largest float64 is a range error with the infinity of its sign, one
\* that rounds to zero is a zero and no error.
atof64(rf) ==
    IF rf.syntax THEN [err |-> TRUE, fv |-> F(0)]
    ELSE IF rf.fv.kind = "inf" THEN [err |-> TRUE, fv |-> rf.fv]
    ELSE [err |-> FALSE, fv |-> rf.fv]

\* strconv.ParseFloat(s, 64). The token is inf, infinity or nan (in any case,
\* the first two with an optional sign), or a decimal or hexadecimal
\* floating-point literal; anything else is a syntax error. The value is the
\* float64 nearest to the real number the token spells, ties to even.
ParseFloat(s) ==
    IF IsInfToken(StripSign(s)) THEN [err |-> FALSE, fv |-> Inf(IsNeg(s))]
    ELSE IF ToLower(s) = <<"n","a","n">> THEN [err |-> FALSE, fv |-> NaN]
    ELSE atof64(readFloat(s))

\* The parenthesis rewrite, mutated: only the opening parenthesis is replaced.
ReplaceParensOpenOnly(s) ==
    LET opens == {i \in 1..Len(s) : s[i] = "("}
    IN  IF opens = {} THEN s
        ELSE SubSeq(s, 1, Min(opens) - 1) \o <<"_">>
                 \o SubSeq(s, Min(opens) + 1, Len(s))

\* reParens.ReplaceAllString(s, "_${1}") with reParens = \((.*)\): the match
\* starts at the first "(" and, .* being greedy, ends at the last ")" after
\* it; nothing after that ")" can match again.
ReplaceParens(s) ==
    LET opens == {i \in 1..Len(s) : s[i] = "("}
    IN  IF opens = {} THEN s
        ELSE LET o == Min(opens)
                 closes == {j \in (o + 1)..Len(s) : s[j] = ")"}
             IN  IF closes = {} THEN s
                 ELSE LET c == Max(closes)
                      IN  SubSeq(s, 1, o - 1) \o <<"_">>
                              \o SubSeq(s, o + 1, c - 1)
                              \o SubSeq(s, c + 1, Len(s))

\* meminfoNodeRE.FindStringSubmatch(node) with
\* meminfoNodeRE = .*devices/system/node/node([0-9]*): the greedy .* takes the
\* last occurrence of the literal, the group the digits that follow it.
meminfoNodeRE(node) ==
    LET lit == <<"d","e","v","i","c","e","s","/","s","y","s","t","e","m","/","n","o","d","e","/","n","o","d","e">>
        at == {k \in 1..Len(node) :
                  /\ k + Len(lit) - 1 <= Len(node)
                  /\ SubSeq(node, k, k + Len(lit) - 1) = lit}
    IN  IF at = {} THEN [nil |-> TRUE, sub |-> <<>>]
        ELSE LET rest == SubSeq(node, Max(at) + Len(lit), Len(node))
                 nondigit == {i \in 1..Len(rest) : ~IsDigit(rest[i])}
                 n == IF nondigit = {} THEN Len(rest) ELSE Min(nondigit) - 1
             IN  [nil |-> FALSE, sub |-> SubSeq(rest, 1, n)]

----------------------------------------------------------------------------
(* The parsers, one loop iteration at a time.                              *)

NoMetric == [metricName |-> <<>>, metricType |-> "Gauge", numaNode |-> <<>>, value |-> F(0)]

\* One iteration of parseMemInfo, mutated: the unit multiplies the value but
\* the key keeps its name.
parseMemInfoLineNoSuffix(line) ==
    LET parts == Fields(line)
    IN  IF Len(parts) = 0 THEN [status |-> "continue", key |-> <<>>, fv |-> F(0)]
        ELSE IF Len(parts) < 2 THEN [status |-> "panic", key |-> <<>>, fv |-> F(0)]
        ELSE LET pf == ParseFloat(parts[2])
                 key == ReplaceParens(SubSeq(parts[1], 1, Len(parts[1]) - 1))
             IN  IF pf.err THEN [status |-> "invalid value", key |-> <<>>, fv |-> F(0)]
                 ELSE IF Len(parts) = 2 THEN [status |-> "ok", key |-> key, fv |-> pf.fv]
                 ELSE IF Len(parts) = 3 THEN [status |-> "ok", key |-> key, fv |-> Mul1024(pf.fv)]
                 ELSE [status |-> "invalid line", key |-> <<>>, fv |-> F(0)]

\* One iteration of the loop of parseMemInfo on the line the scanner gave.
\* "continue": a blank line; "panic": parts[1] is read before the field count
\* is looked at, so a line of one field indexes out of range; "invalid value"
\* and "invalid line" are the two error returns; "ok": memInfo[key] = fv.
parseMemInfoLine(line) ==
    LET parts == Fields(line)
    IN  IF Len(parts) = 0 THEN [status |-> "continue", key |-> <<>>, fv |-> F(0)]
        ELSE IF Len(parts) < 2 THEN [status |-> "panic", key |-> <<>>, fv |-> F(0)]
        ELSE LET pf == ParseFloat(parts[2])
                 key == ReplaceParens(SubSeq(parts[1], 1, Len(parts[1]) - 1))
             IN  IF pf.err THEN [status |-> "invalid value", key |-> <<>>, fv |-> F(0)]
                 ELSE IF Len(parts) = 2 THEN [status |-> "ok", key |-> key, fv |-> pf.fv]
                 ELSE IF Len(parts) = 3
                      THEN [status |-> "ok", key |-> key \o <<"_","b","y","t","e","s">>, fv |-> Mul1024(pf.fv)]
                 ELSE [status |-> "invalid line", key |-> <<>>, fv |-> F(0)]

\* memInfo[key] = fv, mutated: the entry is added and an older one stays.
MapSetKeepOld(m, key, fv) == m \cup {<<key, fv>>}

\* memInfo[key] = fv on a Go map, held as its set of <<key, value>> entries.
MapSet(m, key, fv) == {e \in m : e[1] # key} \cup {<<key, fv>>}

\* One iteration of parseMemInfoNuma, mutated: the unit also renames the
\* metric, as parseMemInfo does.
parseMemInfoNumaLineSuffix(line) ==
    LET parts == Fields(TrimSpace(line))
    IN  IF TrimSpace(line) = <<>> THEN [status |-> "continue", rec |-> NoMetric]
        ELSE IF Len(parts) < 4 THEN [status |-> "panic", rec |-> NoMetric]
        ELSE LET pf == ParseFloat(parts[4])
                 metric == ReplaceParens(TrimRight(parts[3], ":"))
             IN  IF pf.err THEN [status |-> "invalid value", rec |-> NoMetric]
                 ELSE IF Len(parts) = 4
                      THEN [status |-> "ok",
                            rec |-> [metricName |-> metric, metricType |-> "Gauge",
                                     numaNode |-> parts[2], value |-> pf.fv]]
                 ELSE IF Len(parts) = 5 /\ parts[5] = <<"k","B">>
                      THEN [status |-> "ok",
                            rec |-> [metricName |-> metric \o <<"_","b","y","t","e","s">>, metricType |-> "Gauge",
                                     numaNode |-> parts[2], value |-> Mul1024(pf.fv)]]
                 ELSE [status |-> "invalid line", rec |-> NoMetric]

\* One iteration of the loop of parseMemInfoNuma. parts[3] is parsed before
\* the field count is looked at, so a line of fewer than four fields indexes
\* out of range ("panic").
parseMemInfoNumaLine(line) ==
    LET parts == Fields(TrimSpace(line))
    IN  IF TrimSpace(line) = <<>> THEN [status |-> "continue", rec |-> NoMetric]
        ELSE IF Len(parts) < 4 THEN [status |-> "panic", rec |-> NoMetric]
        ELSE LET pf == ParseFloat(parts[4])
                 metric == ReplaceParens(TrimRight(parts[3], ":"))
             IN  IF pf.err THEN [status |-> "invalid value", rec |-> NoMetric]
                 ELSE IF Len(parts) = 4
                      THEN [status |-> "ok",
                            rec |-> [metricName |-> metric, metricType |-> "Gauge",
                                     numaNode |-> parts[2], value |-> pf.fv]]
                 ELSE IF Len(parts) = 5 /\ parts[5] = <<"k","B">>
                      THEN [status |-> "ok",
                            rec |-> [metricName |-> metric, metricType |-> "Gauge",
                                     numaNode |-> parts[2], value |-> Mul1024(pf.fv)]]
                 ELSE [status |-> "invalid line", rec |-> NoMetric]

\* One iteration of the loop of parseMemInfoNumaStat for the node id given.
parseMemInfoNumaStatLine(line, node) ==
    LET parts == Fields(TrimSpace(line))
    IN  IF TrimSpace(line) = <<>> THEN [status |-> "continue", rec |-> NoMetric]
        ELSE IF Len(parts) # 2 THEN [status |-> "invalid line", rec |-> NoMetric]
        ELSE LET pf == ParseFloat(parts[2])
             IN  IF pf.err THEN [status |-> "invalid value", rec |-> NoMetric]
                 ELSE [status |-> "ok",
                       rec |-> [metricName |-> parts[1] \o <<"_","t","o","t","a","l">>,
                                metricType |-> "Counter",
                                numaNode |-> node, value |-> pf.fv]]

----------------------------------------------------------------------------
(* The two Update methods: what is sent to the channel.                    *)

\* The metric meminfoCollector.Update sends for the entry k, v of the map.
meminfoMetricOf(k, v) ==
    [subsystem |-> "memory", name |-> k,
     kind |-> IF HasSuffix(k, <<"_","t","o","t","a","l">>) THEN "Counter" ELSE "Gauge",
     value |-> v, labels |-> <<>>]

\* The metric of meminfoNumaCollector.Update, mutated: the kind is derived
\* from the name, as on the non-NUMA path.
numaMetricByName(v) ==
    [subsystem |-> "memory_numa", name |-> v.metricName,
     kind |-> IF HasSuffix(v.metricName, <<"_","t","o","t","a","l">>) THEN "Counter" ELSE "Gauge",
     value |-> v.value, labels |-> <<v.numaNode>>]

\* The metric meminfoNumaCollector.Update sends for the record v.
numaMetricOf(v) ==
    [subsystem |-> "memory_numa", name |-> v.metricName, kind |-> v.metricType,
     value |-> v.value, labels |-> <<v.numaNode>>]

NameChars ==
    {UpperChars[i] : i \in 1..Len(UpperChars)}
        \cup {LowerChars[i] : i \in 1..Len(LowerChars)}
        \cup {DigitChars[i] : i \in 1..Len(DigitChars)}
        \cup {"_", ":"}

\* prometheus.MustNewConstMetric on the descriptor NewDesc makes of
\* BuildFQName(namespace, subsystem, name): what the call can do. BuildFQName
\* gives the empty string for an empty name, which no descriptor accepts, so
\* the call panics. A name with a character outside [a-zA-Z0-9_:] is refused
\* by a client library that validates names by that pattern and taken by one
\* that takes any UTF-8 name; the library is not pinned by the sources, so
\* both outcomes are kept.
MustNewConstMetric(name) ==
    IF name = <<>> THEN {"panic"}
    ELSE IF \A i \in 1..Len(name) : name[i] \in NameChars THEN {"metric"}
    ELSE {"metric", "panic"}

----------------------------------------------------------------------------
(* Files and the deferred Close calls of a pass.                           *)

Close(fs, h) == [fs EXCEPT ![h].closed = @ + 1]

\* The deferred calls at a return, mutated: only the last deferred Close runs.
RunDefersLastOnly(fs, ds) ==
    IF ds = <<>> THEN fs ELSE Close(fs, ds[Len(ds)])

\* The deferred Close calls run, last in first out, when the function that
\* deferred them returns or panics.
RECURSIVE RunDefers(_, _)
RunDefers(fs, ds) ==
    IF ds = <<>> THEN fs
    ELSE RunDefers(Close(fs, ds[Len(ds)]), SubSeq(ds, 1, Len(ds) - 1))

NoRet == [returned |-> FALSE, isNil |-> TRUE, err |-> "nil"]

----------------------------------------------------------------------------
(* The inputs: the lines a reader can give, the node directories the glob  *)
(* can return, the answers of the native queries.                          *)

Sp == <<" ">>

MemKeys == {<<"M","e","m","T","o","t","a","l",":">>, <<"A","c","t","i","v","e","(","a","n","o","n",")",":">>, <<"a","(","(","b",")",")",":">>, <<"x","_","t","o","t","a","l",":">>}

\* Tokens of the other forms strconv.ParseFloat takes or refuses: a sign, a
\* fraction and an exponent; a hexadecimal literal; an infinity; NaN; a
\* number beyond the range; underscores between and not between digits.
FloatTokens ==
    {<<"-","1",".","5","e","1">>, <<"0","x","1","p","-","2">>, <<"+","I","n","f">>, <<"N","a","N">>, <<"1","e","9","9","9">>, <<"1","_","0">>, <<"1","_">>,
     <<"1",".","7","9","7","6","e","3","0","8">>, <<"1",".","7","9","7","6","e","3","0","8"," ","k","B">>, <<"2",".","4","7","1","e","-","3","2","4">>, <<"5","e","-","3","2","4"," ","k","B">>}

MemLines ==
    {<<"M","e","m","T","o","t","a","l",":">>}
    \cup {k \o <<" ","5","0","0">> : k \in MemKeys}
    \cup {k \o <<" ","5","0","0"," ","k","B">> : k \in MemKeys}
    \cup {<<"M","e","m","T","o","t","a","l",":"," ">> \o v : v \in FloatTokens}
    \cup {<<"M","e","m","T","o","t","a","l",":"," ","1","2","3","4">>, <<"M","e","m","T","o","t","a","l",":"," ","1","2","3","4"," ","k","B">>, <<"M","e","m","T","o","t","a","l",":"," ","x">>, <<"M","e","m","T","o","t","a","l",":"," ","x"," ","k","B">>,
          <<"M","e","m","T","o","t","a","l",":"," ","5","0","0"," ","k","B"," ","k","B">>, <<"M","e","m","T","o","t","a","l",":"," ","x"," ","k","B"," ","k","B">>,
          <<>>, <<" "," ">>, <<" ","M","e","m","T","o","t","a","l",":"," "," "," ","1","2","3","4"," "," ","k","B"," ">>, <<":"," ","5","0","0">>,
          <<"M","e","m","T","o","t","a","l",":">> \o <<"\r">> \o <<"5","0","0">>,
          <<"M","e","m","T","o","t","a","l",":">> \o <<"\f">> \o <<"5","0","0">> \o <<"NBSP">> \o <<"k","B">>,
          <<"VT", "NEL">>}

NumaKeys == {<<"M","e","m","F","r","e","e",":">>, <<"A","c","t","i","v","e","(","a","n","o","n",")",":">>, <<"x","_","t","o","t","a","l",":">>}

\* Tokens of the forms of FloatTokens on the lines of a node's meminfo.
NumaFloatTokens == {<<"-","1",".","5","e","1">>, <<"N","a","N">>, <<"1","e","9","9","9">>, <<"1",".","7","9","7","6","e","3","0","8"," ","k","B">>, <<"5","e","-","3","2","4"," ","k","B">>}

NumaLines ==
    {<<"N","o","d","e">>, <<"N","o","d","e"," ","0"," ","M","e","m","F","r","e","e",":">>}
    \cup {<<"N","o","d","e"," ","0"," ">> \o k \o <<" ","5","0","0">> : k \in NumaKeys}
    \cup {<<"N","o","d","e"," ","0"," ">> \o k \o <<" ","5","0","0"," ","k","B">> : k \in NumaKeys}
    \cup {<<"N","o","d","e"," ","0"," ","M","e","m","F","r","e","e",":"," ">> \o v : v \in NumaFloatTokens}
    \cup {<<"N","o","d","e"," ","1"," ","M","e","m","F","r","e","e",":"," ","5","0","0">>, <<"N","o","d","e"," ","0"," ","M","e","m","F","r","e","e",":"," ","x">>, <<"N","o","d","e"," ","0"," ","M","e","m","F","r","e","e",":"," ","x"," ","k","B">>,
          <<"N","o","d","e"," ","0"," ","M","e","m","F","r","e","e",":"," ","5","0","0"," ","M","B">>, <<"N","o","d","e"," ","0"," ","M","e","m","F","r","e","e",":"," ","5","0","0"," ","k","B"," ","k","B">>,
          <<>>, <<" "," ","N","o","d","e"," ","1"," ","M","e","m","F","r","e","e",":"," "," ","5","0","0"," ","k","B"," ">>, <<"N","o","d","e"," ","0"," ",":"," ","5","0","0">>,
          <<"\r">> \o <<"N","o","d","e">> \o <<"VT">> \o <<"0">> \o <<"NEL">> \o <<"M","e","m","F","r","e","e",":">>
              \o <<"\f">> \o <<"5","0","0">> \o <<"NBSP">> \o <<"k","B">> \o <<"\r">>,
          <<"\f", "NBSP">>}

\* Every raw key over a, ( and ) up to MaxKeyLen characters, colon appended.
KeyAlphabet == {"a", "(", ")"}

AllKeys ==
    {k \o <<":">> : k \in UNION {[1..n -> KeyAlphabet] : n \in 1..MaxKeyLen}}

MemKeyLines == {k \o <<" ","5","0","0">> : k \in AllKeys \cup MemKeys}

NumaKeyLines == {<<"N","o","d","e"," ","0"," ">> \o k \o <<" ","5","0","0">> : k \in AllKeys \cup NumaKeys}

NumaStatLines ==
    {<<"n","u","m","a","_","h","i","t"," ","4","2">>, <<"n","u","m","a","_","h","i","t"," ","x">>, <<"n","u","m","a","_","m","i","s","s"," ","4","2">>, <<"n","u","m","a","_","h","i","t">>,
     <<"n","u","m","a","_","h","i","t"," ","4","2"," ","k","B">>, <<>>, <<" ","n","u","m","a","_","m","i","s","s"," ","7"," ">>, <<"n","u","m","a","_","h","i","t"," ","-","1",".","5","e","1">>,
     <<"n","u","m","a","_","h","i","t"," ","1","e","9","9","9">>, <<"n","u","m","a","_","h","i","t"," ","2",".","4","7","1","e","-","3","2","4">>, <<"VT">> \o <<"n","u","m","a","_","h","i","t">> \o <<"\r">> \o <<"4","2">> \o <<"NEL">>}

\* The i-th directory of the sorted glob result: node0, node1, node10, ...
NodeDir(i) ==
    <<"/","s","y","s","/","d","e","v","i","c","e","s","/","s","y","s","t","e","m","/","n","o","d","e","/","n","o","d","e">>
        \o (IF i <= 2 THEN <<DigitChars[i]>> ELSE <<"1", DigitChars[i - 2]>>)

\* A result of filepath.Glob: the directories numbered in I, in the sorted
\* order Glob returns them in.
NodePaths(I) ==
    [k \in 1..Cardinality(I) |->
        NodeDir(CHOOSE i \in I : Cardinality({j \in I : j < i}) = k - 1)]

\* The node numbers the directories of the glob have.
NodeNumbers == {meminfoNodeRE(NodeDir(i)).sub : i \in 1..MaxNodes}

\* The loop bodies on every line a reader can give, computed once.
parseMemInfoLines ==
    [line \in MemLines \cup MemKeyLines |-> parseMemInfoLine(line)]

parseMemInfoNumaLines ==
    [line \in NumaLines \cup NumaKeyLines |-> parseMemInfoNumaLine(line)]

parseMemInfoNumaStatLines ==
    [node \in NodeNumbers |->
        [line \in NumaStatLines |-> parseMemInfoNumaStatLine(line, node)]]

\* Answers of host_statistics64, hw.memsize, vm.swapusage and host_page_size.
VmSamples ==
    {[pageSize |-> 4096, active |-> 3, compressor |-> 0, inactive |-> 2, wire |-> 1,
      free |-> 5, pageins |-> 7, pageouts |-> 0, internal |-> 4, purgeable |-> 1,
      total |-> 65536, swapUsed |-> 0, swapTotal |-> 0],
     [pageSize |-> 16384, active |-> 1, compressor |-> 2, inactive |-> 0, wire |-> 3,
      free |-> 0, pageins |-> 9, pageouts |-> 6, internal |-> 1, purgeable |-> 0,
      total |-> 262144, swapUsed |-> 8192, swapTotal |-> 16384]}

NativeFailures == {"none", "host_statistics64", "hw.memsize", "vm.swapusage"}

\* The map the native getMemInfo returns for the answers vm.
nativeMemInfo(vm) ==
    {<<<<"a","c","t","i","v","e","_","b","y","t","e","s">>, F(vm.pageSize * vm.active)>>,
     <<<<"c","o","m","p","r","e","s","s","e","d","_","b","y","t","e","s">>, F(vm.pageSize * vm.compressor)>>,
     <<<<"i","n","a","c","t","i","v","e","_","b","y","t","e","s">>, F(vm.pageSize * vm.inactive)>>,
     <<<<"w","i","r","e","d","_","b","y","t","e","s">>, F(vm.pageSize * vm.wire)>>,
     <<<<"f","r","e","e","_","b","y","t","e","s">>, F(vm.pageSize * vm.free)>>,
     <<<<"s","w","a","p","p","e","d","_","i","n","_","b","y","t","e","s","_","t","o","t","a","l">>, F(vm.pageSize * vm.pageins)>>,
     <<<<"s","w","a","p","p","e","d","_","o","u","t","_","b","y","t","e","s","_","t","o","t","a","l">>, F(vm.pageSize * vm.pageouts)>>,
     <<<<"i","n","t","e","r","n","a","l","_","b","y","t","e","s">>, F(vm.pageSize * vm.internal)>>,
     <<<<"p","u","r","g","e","a","b","l","e","_","b","y","t","e","s">>, F(vm.pageSize * vm.purgeable)>>,
     <<<<"t","o","t","a","l","_","b","y","t","e","s">>, F(vm.total)>>,
     <<<<"s","w","a","p","_","u","s","e","d","_","b","y","t","e","s">>, F(vm.swapUsed)>>,
     <<<<"s","w","a","p","_","t","o","t","a","l","_","b","y","t","e","s">>, F(vm.swapTotal)>>}

----------------------------------------------------------------------------
(* The state machine: one collection pass of one collector.                *)

Init ==
    /\ collector = "none"
    /\ pc = "idle"
    /\ stream = <<>>
    /\ nread = 0
    /\ memInfo = {}
    /\ numaInfo = <<>>
    /\ numaStat = <<>>
    /\ metrics = <<>>
    /\ nodes = <<>>
    /\ idx = 1
    /\ nodeNumber = <<>>
    /\ files = <<>>
    /\ defers = <<>>
    /\ ret = NoRet
    /\ ch = EmptyBag
    /\ metricDescs = {}
    /\ result = "running"
    /\ todo = {}
    /\ sending = <<>>
    /\ nsent = 0

sendVars == <<todo, sending, nsent>>

numaVars == <<numaInfo, numaStat, metrics, nodes, idx, nodeNumber, metricDescs>>

\* meminfoCollector.Update calls getMemInfo (Linux), which opens /proc/meminfo.
GetMemInfoOpen ==
    /\ pc = "idle"
    /\ collector' = "meminfo"
    /\ \E ok \in BOOLEAN :
          IF ok
          THEN /\ files' = <<[node |-> 0, file |-> "meminfo", closed |-> 0]>>
               /\ defers' = <<1>>
               /\ ret' = ret
               /\ pc' = "parseMemInfo"
          ELSE /\ ret' = [returned |-> TRUE, isNil |-> TRUE, err |-> "open"]
               /\ pc' = "meminfoUpdate"
               /\ UNCHANGED <<files, defers>>
    /\ UNCHANGED <<stream, nread, memInfo, ch, result, numaVars>>
    /\ UNCHANGED sendVars

\* scanner.Scan() gives a line and the loop body of parseMemInfo runs on it.
ParseMemInfoScanFrom(Lines, cap) ==
    /\ pc = "parseMemInfo"
    /\ nread < cap
    /\ \E line \in Lines :
          LET r == parseMemInfoLines[line]
          IN  /\ stream' = Append(stream, line)
              /\ nread' = nread + 1
              /\ CASE r.status = "continue" ->
                        UNCHANGED <<memInfo, files, defers, ret, pc, result>>
                   [] r.status = "ok" ->
                        /\ memInfo' = MapSet(memInfo, r.key, r.fv)
                        /\ UNCHANGED <<files, defers, ret, pc, result>>
                   [] r.status = "panic" ->
                        /\ files' = RunDefers(files, defers)
                        /\ defers' = <<>>
                        /\ result' = "panic"
                        /\ pc' = "done"
                        /\ UNCHANGED <<memInfo, ret>>
                   [] OTHER ->
                        /\ memInfo' = {}
                        /\ ret' = [returned |-> TRUE, isNil |-> TRUE, err |-> r.status]
                        /\ files' = RunDefers(files, defers)
                        /\ defers' = <<>>
                        /\ pc' = "meminfoUpdate"
                        /\ UNCHANGED result
    /\ UNCHANGED <<collector, ch, numaVars>>
    /\ UNCHANGED sendVars

ParseMemInfoScan == ParseMemInfoScanFrom(MemLines, MaxLines)

\* The same, on a first line of the form  key: 500  for every key of AllKeys.
ParseMemInfoKeyScan == ParseMemInfoScanFrom(MemKeyLines, 1)

\* scanner.Scan() gives false: parseMemInfo returns the map and scanner.Err(),
\* getMemInfo returns them and its deferred Close runs.
ParseMemInfoEOF ==
    /\ pc = "parseMemInfo"
    /\ \E readErr \in BOOLEAN :
          ret' = [returned |-> TRUE, isNil |-> FALSE,
                  err |-> IF readErr THEN "read" ELSE "nil"]
    /\ files' = RunDefers(files, defers)
    /\ defers' = <<>>
    /\ pc' = "meminfoUpdate"
    /\ UNCHANGED <<collector, stream, nread, memInfo, ch, result, numaVars>>
    /\ UNCHANGED sendVars

\* meminfoCollector.Update calls getMemInfo (Darwin): the native queries.
NativeGetMemInfo ==
    /\ pc = "idle"
    /\ collector' = "native"
    /\ \E fail \in NativeFailures, vm \in VmSamples :
          IF fail = "none"
          THEN /\ memInfo' = nativeMemInfo(vm)
               /\ ret' = [returned |-> TRUE, isNil |-> FALSE, err |-> "nil"]
          ELSE /\ memInfo' = {}
               /\ ret' = [returned |-> TRUE, isNil |-> TRUE, err |-> fail]
    /\ pc' = "meminfoUpdate"
    /\ UNCHANGED <<stream, nread, files, defers, ch, result, numaVars>>
    /\ UNCHANGED sendVars

\* The range loop of meminfoCollector.Update from its next iteration on, the
\* entries rest still to come, up to the channel send it blocks in: the loop
\* is over and Update returns nil, or it takes an entry (a Go map is ranged
\* over in no fixed order), builds the metric or panics in doing so.
MeminfoRange(rest) ==
    IF rest = {}
    THEN /\ result' = "ok"
         /\ pc' = "done"
         /\ todo' = {}
         /\ sending' = <<>>
    ELSE \E e \in rest : \E o \in MustNewConstMetric(e[1]) :
            /\ todo' = rest \ {e}
            /\ IF o = "panic"
               THEN /\ result' = "panic"
                    /\ pc' = "done"
                    /\ sending' = <<>>
               ELSE /\ result' = result
                    /\ pc' = "meminfoSend"
                    /\ sending' = <<meminfoMetricOf(e[1], e[2])>>

\* meminfoCollector.Update after getMemInfo has returned: the error return,
\* or the range loop up to its first channel send.
MeminfoUpdate ==
    /\ pc = "meminfoUpdate"
    /\ IF ret.err # "nil"
       THEN /\ result' = "error"
            /\ pc' = "done"
            /\ UNCHANGED <<todo, sending>>
       ELSE MeminfoRange(memInfo)
    /\ UNCHANGED <<collector, stream, nread, memInfo, files, defers, ret, ch,
                   nsent, numaVars>>

\* The receiver takes the metric: the send of meminfoCollector.Update
\* completes and the loop goes on to its next send, or to its end.
MeminfoSend ==
    /\ pc = "meminfoSend"
    /\ ch' = ch (+) SetToBag({sending[1]})
    /\ MeminfoRange(todo)
    /\ UNCHANGED <<collector, stream, nread, memInfo, files, defers, ret,
                   nsent, numaVars>>

\* meminfoNumaCollector.Update calls getMemInfoNuma, which globs the node
\* directories. filepath.Glob fails on a malformed pattern (the pattern
\* starts with the configured sysfs path) and getMemInfoNuma returns the
\* error; otherwise it gives the node directories there are, sorted.
GetMemInfoNumaGlob ==
    /\ pc = "idle"
    /\ collector' = "numa"
    /\ \E globErr \in BOOLEAN :
          IF globErr
          THEN /\ nodes' = <<>>
               /\ ret' = [returned |-> TRUE, isNil |-> TRUE, err |-> "glob"]
               /\ pc' = "numaUpdate"
          ELSE /\ \E I \in SUBSET (1..MaxNodes) : nodes' = NodePaths(I)
               /\ ret' = ret
               /\ pc' = "numaLoop"
    /\ idx' = 1
    /\ UNCHANGED <<stream, nread, memInfo, numaInfo, numaStat, metrics, nodeNumber,
                   files, defers, ch, metricDescs, result>>
    /\ UNCHANGED sendVars

\* The loop of getMemInfoNuma takes the next node and opens its meminfo.
NumaOpenMeminfo ==
    /\ pc = "numaLoop"
    /\ idx <= Len(nodes)
    /\ \E ok \in BOOLEAN :
          IF ok
          THEN /\ files' = Append(files, [node |-> idx, file |-> "meminfo", closed |-> 0])
               /\ defers' = Append(defers, Len(files) + 1)
               /\ pc' = "parseMemInfoNuma"
               /\ UNCHANGED <<ret, metrics>>
          ELSE /\ files' = RunDefers(files, defers)
               /\ defers' = <<>>
               /\ metrics' = <<>>
               /\ ret' = [returned |-> TRUE, isNil |-> TRUE, err |-> "open"]
               /\ pc' = "numaUpdate"
    /\ stream' = <<>>
    /\ numaInfo' = <<>>
    /\ UNCHANGED <<collector, nread, memInfo, numaStat, nodes, idx, nodeNumber,
                   ch, metricDescs, result>>
    /\ UNCHANGED sendVars

\* scanner.Scan() gives a line and the loop body of parseMemInfoNuma runs.
ParseMemInfoNumaScanFrom(Lines, cap) ==
    /\ pc = "parseMemInfoNuma"
    /\ nread < cap
    /\ \E line \in Lines :
          LET r == parseMemInfoNumaLines[line]
          IN  /\ stream' = Append(stream, line)
              /\ nread' = nread + 1
              /\ CASE r.status = "continue" ->
                        UNCHANGED <<numaInfo, metrics, files, defers, ret, pc, result>>
                   [] r.status = "ok" ->
                        /\ numaInfo' = Append(numaInfo, r.rec)
                        /\ UNCHANGED <<metrics, files, defers, ret, pc, result>>
                   [] r.status = "panic" ->
                        /\ files' = RunDefers(files, defers)
                        /\ defers' = <<>>
                        /\ result' = "panic"
                        /\ pc' = "done"
                        /\ UNCHANGED <<numaInfo, metrics, ret>>
                   [] OTHER ->
                        /\ numaInfo' = <<>>
                        /\ metrics' = <<>>
                        /\ ret' = [returned |-> TRUE, isNil |-> TRUE, err |-> r.status]
                        /\ files' = RunDefers(files, defers)
                        /\ defers' = <<>>
                        /\ pc' = "numaUpdate"
                        /\ UNCHANGED result
    /\ UNCHANGED <<collector, memInfo, numaStat, nodes, idx, nodeNumber, ch, metricDescs>>
    /\ UNCHANGED sendVars

ParseMemInfoNumaScan == ParseMemInfoNumaScanFrom(NumaLines, MaxLines)

\* The same, on a first line  Node 0 key: 500  for every key of AllKeys.
ParseMemInfoNumaKeyScan == ParseMemInfoNumaScanFrom(NumaKeyLines, 1)

\* scanner.Scan() gives false: parseMemInfoNuma returns its records and
\* scanner.Err(); getMemInfoNuma returns on the error or appends the records.
ParseMemInfoNumaEOF ==
    /\ pc = "parseMemInfoNuma"
    /\ \E readErr \in BOOLEAN :
          IF readErr
          THEN /\ metrics' = <<>>
               /\ ret' = [returned |-> TRUE, isNil |-> TRUE, err |-> "read"]
               /\ files' = RunDefers(files, defers)
               /\ defers' = <<>>
               /\ pc' = "numaUpdate"
          ELSE /\ metrics' = metrics \o numaInfo
               /\ pc' = "numaOpenNumastat"
               /\ UNCHANGED <<ret, files, defers>>
    /\ numaInfo' = <<>>
    /\ stream' = <<>>
    /\ UNCHANGED <<collector, nread, memInfo, numaStat, nodes, idx, nodeNumber,
                   ch, metricDescs, result>>
    /\ UNCHANGED sendVars

\* getMemInfoNuma opens the node's numastat and takes the node id from the
\* directory name.
NumaOpenNumastat ==
    /\ pc = "numaOpenNumastat"
    /\ \E ok \in BOOLEAN :
          LET m == meminfoNodeRE(nodes[idx])
          IN  IF ~ok
              THEN /\ files' = RunDefers(files, defers)
                   /\ defers' = <<>>
                   /\ metrics' = <<>>
                   /\ ret' = [returned |-> TRUE, isNil |-> TRUE, err |-> "open"]
                   /\ pc' = "numaUpdate"
                   /\ UNCHANGED nodeNumber
              ELSE IF m.nil
              THEN /\ files' = RunDefers(
                                   Append(files, [node |-> idx, file |-> "numastat",
                                                  closed |-> 0]),
                                   Append(defers, Len(files) + 1))
                   /\ defers' = <<>>
                   /\ metrics' = <<>>
                   /\ ret' = [returned |-> TRUE, isNil |-> TRUE, err |-> "regexp"]
                   /\ pc' = "numaUpdate"
                   /\ UNCHANGED nodeNumber
              ELSE /\ files' = Append(files, [node |-> idx, file |-> "numastat",
                                              closed |-> 0])
                   /\ defers' = Append(defers, Len(files) + 1)
                   /\ nodeNumber' = m.sub
                   /\ pc' = "parseMemInfoNumaStat"
                   /\ UNCHANGED <<ret, metrics>>
    /\ stream' = <<>>
    /\ numaStat' = <<>>
    /\ UNCHANGED <<collector, nread, memInfo, numaInfo, nodes, idx, ch, metricDescs, result>>
    /\ UNCHANGED sendVars

\* scanner.Scan() gives a line and the loop body of parseMemInfoNumaStat runs.
ParseMemInfoNumaStatScan ==
    /\ pc = "parseMemInfoNumaStat"
    /\ nread < MaxLines
    /\ \E line \in NumaStatLines :
          LET r == parseMemInfoNumaStatLines[nodeNumber][line]
          IN  /\ stream' = Append(stream, line)
              /\ nread' = nread + 1
              /\ CASE r.status = "continue" ->
                        UNCHANGED <<numaStat, metrics, files, defers, ret, pc>>
                   [] r.status = "ok" ->
                        /\ numaStat' = Append(numaStat, r.rec)
                        /\ UNCHANGED <<metrics, files, defers, ret, pc>>
                   [] OTHER ->
                        /\ numaStat' = <<>>
                        /\ metrics' = <<>>
                        /\ ret' = [returned |-> TRUE, isNil |-> TRUE, err |-> r.status]
                        /\ files' = RunDefers(files, defers)
                        /\ defers' = <<>>
                        /\ pc' = "numaUpdate"
    /\ UNCHANGED <<collector, memInfo, numaInfo, nodes, idx, nodeNumber, ch,
                   metricDescs, result>>
    /\ UNCHANGED sendVars

\* scanner.Scan() gives false: parseMemInfoNumaStat returns; getMemInfoNuma
\* returns on the error or appends the records and goes to the next node.
ParseMemInfoNumaStatEOF ==
    /\ pc = "parseMemInfoNumaStat"
    /\ \E readErr \in BOOLEAN :
          IF readErr
          THEN /\ metrics' = <<>>
               /\ ret' = [returned |-> TRUE, isNil |-> TRUE, err |-> "read"]
               /\ files' = RunDefers(files, defers)
               /\ defers' = <<>>
               /\ pc' = "numaUpdate"
               /\ UNCHANGED idx
          ELSE /\ metrics' = metrics \o numaStat
               /\ idx' = idx + 1
               /\ pc' = "numaLoop"
               /\ UNCHANGED <<ret, files, defers>>
    /\ numaStat' = <<>>
    /\ stream' = <<>>
    /\ UNCHANGED <<collector, nread, memInfo, numaInfo, nodes, nodeNumber,
                   ch, metricDescs, result>>
    /\ UNCHANGED sendVars

\* The loop of getMemInfoNuma is over: it returns metrics and the deferred
\* Close calls run.
GetMemInfoNumaReturn ==
    /\ pc = "numaLoop"
    /\ idx > Len(nodes)
    /\ ret' = [returned |-> TRUE, isNil |-> metrics = <<>>, err |-> "nil"]
    /\ files' = RunDefers(files, defers)
    /\ defers' = <<>>
    /\ pc' = "numaUpdate"
    /\ UNCHANGED <<collector, stream, nread, memInfo, numaInfo, numaStat, metrics,
                   nodes, idx, nodeNumber, ch, metricDescs, result>>
    /\ UNCHANGED sendVars

\* The loop of meminfoNumaCollector.Update from the record after the k sent
\* ones on, up to the channel send it blocks in: the loop is over and Update
\* returns nil, or the descriptor of the record is looked up in
\* c.metricDescs, made and stored there if it is new, and the metric is
\* built, or the call panics.
MeminfoNumaRange(k) ==
    IF k = Len(metrics)
    THEN /\ result' = "ok"
         /\ pc' = "done"
         /\ sending' = <<>>
         /\ metricDescs' = metricDescs
    ELSE /\ metricDescs' = metricDescs \cup {metrics[k + 1].metricName}
         /\ \E o \in MustNewConstMetric(metrics[k + 1].metricName) :
               IF o = "panic"
               THEN /\ result' = "panic"
                    /\ pc' = "done"
                    /\ sending' = <<>>
               ELSE /\ result' = result
                    /\ pc' = "numaSend"
                    /\ sending' = <<numaMetricOf(metrics[k + 1])>>

\* meminfoNumaCollector.Update after getMemInfoNuma has returned: the error
\* return, or the loop over the records up to its first channel send.
MeminfoNumaUpdate ==
    /\ pc = "numaUpdate"
    /\ IF ret.err # "nil"
       THEN /\ result' = "error"
            /\ pc' = "done"
            /\ UNCHANGED <<sending, metricDescs>>
       ELSE MeminfoNumaRange(0)
    /\ UNCHANGED <<collector, stream, nread, memInfo, numaInfo, numaStat, metrics,
                   nodes, idx, nodeNumber, files, defers, ret, ch, todo, nsent>>

\* The receiver takes the metric: the send of meminfoNumaCollector.Update
\* completes and the loop goes on to its next record, or to its end.
MeminfoNumaSend ==
    /\ pc = "numaSend"
    /\ ch' = ch (+) SetToBag({sending[1]})
    /\ nsent' = nsent + 1
    /\ MeminfoNumaRange(nsent + 1)
    /\ UNCHANGED <<collector, stream, nread, memInfo, numaInfo, numaStat, metrics,
                   nodes, idx, nodeNumber, files, defers, ret, todo>>

Next ==
    \/ GetMemInfoOpen
    \/ ParseMemInfoScan
    \/ ParseMemInfoEOF
    \/ NativeGetMemInfo
    \/ MeminfoUpdate
    \/ MeminfoSend
    \/ GetMemInfoNumaGlob
    \/ NumaOpenMeminfo
    \/ ParseMemInfoNumaScan
    \/ ParseMemInfoNumaEOF
    \/ NumaOpenNumastat
    \/ ParseMemInfoNumaStatScan
    \/ ParseMemInfoNumaStatEOF
    \/ GetMemInfoNumaReturn
    \/ MeminfoNumaUpdate
    \/ MeminfoNumaSend

Spec == Init /\ [][Next]_vars

\* The same passes, the first line of meminfo ranging over every raw key.
NextKeys ==
    \/ GetMemInfoOpen
    \/ ParseMemInfoKeyScan
    \/ ParseMemInfoEOF
    \/ NativeGetMemInfo
    \/ MeminfoUpdate
    \/ MeminfoSend
    \/ GetMemInfoNumaGlob
    \/ NumaOpenMeminfo
    \/ ParseMemInfoNumaKeyScan
    \/ ParseMemInfoNumaEOF
    \/ NumaOpenNumastat
    \/ ParseMemInfoNumaStatScan
    \/ ParseMemInfoNumaStatEOF
    \/ GetMemInfoNumaReturn
    \/ MeminfoNumaUpdate
    \/ MeminfoNumaSend

SpecKeys == Init /\ [][NextKeys]_vars

----------------------------------------------------------------------------
(* What the properties below speak about.                                  *)

IsNonBlank(l) == Fields(l) # <<>>

\* The lines of the current reader that are not blank, in order.
NonBlank == SelectSeq(stream, IsNonBlank)

NoParens(s) == \A i \in 1..Len(s) : s[i] \notin {"(", ")"}

\* name = p \o "_total" for some p.
EndsInTotal(name) ==
    \E n \in 0..Len(name) : name = SubSeq(name, 1, n) \o <<"_","t","o","t","a","l">>

\* The reader being scanned is the file opened last.
Scanning(file) == files # <<>> /\ files[Len(files)].file = file

\* A line of the form  Key: v  or  Key: v kB.
WellFormedMemLine(l) ==
    LET p == Fields(l)
    IN  /\ Len(p) \in {2, 3}
        /\ p[1][Len(p[1])] = ":"
        /\ ~ParseFloat(p[2]).err
        /\ Len(p) = 3 => p[3] = <<"k","B">>

\* The entry a well-formed line stands for: (Key, v) or (Key_bytes, v*1024),
\* Key being the canonical key.
MemEntryOf(l) ==
    LET p == Fields(l)
        key == ReplaceParens(SubSeq(p[1], 1, Len(p[1]) - 1))
        v == ParseFloat(p[2]).fv
    IN  IF Len(p) = 2 THEN <<key, v>> ELSE <<key \o <<"_","b","y","t","e","s">>, Mul1024(v)>>

\* The well-formed lines among those a reader can give, and their entries.
WellFormedMemLines == {l \in MemLines \cup MemKeyLines : WellFormedMemLine(l)}

MemEntries == [l \in WellFormedMemLines |-> MemEntryOf(l)]

\* A line of the form  Node <id> <Key>: <v> kB.
IsNumaUnitLine(l) ==
    LET p == Fields(l)
    IN  /\ Len(p) = 5
        /\ p[5] = <<"k","B">>
        /\ ~ParseFloat(p[4]).err

\* Such lines among those a reader can give, and the value v*1024 of each.
NumaUnitLines == {l \in NumaLines \cup NumaKeyLines : IsNumaUnitLine(l)}

NumaUnitValue == [l \in NumaUnitLines |-> Mul1024(ParseFloat(Fields(l)[4]).fv)]

----------------------------------------------------------------------------
\* C1, as stated: once parseMemInfoNuma has read a line  Node <id> <Key>: <v> kB
\* it holds one record per non-blank line read, and the record of that line
\* is the Gauge named canonical key + "_bytes", with node <id> and value v*1024.
C1_AsStated ==
    (pc = "parseMemInfoNuma" /\ stream # <<>> /\ stream[Len(stream)] \in NumaUnitLines)
    => LET p == Fields(stream[Len(stream)])
       IN  /\ Len(numaInfo) = Len(NonBlank)
           /\ numaInfo[Len(numaInfo)] =
                  [metricName |-> ReplaceParens(TrimRight(p[3], ":")) \o <<"_","b","y","t","e","s">>,
                   metricType |-> "Gauge", numaNode |-> p[2],
                   value |-> NumaUnitValue[stream[Len(stream)]]]

\* C1, amended: once parseMemInfoNuma has read a line  Node <id> <Key>: <v> kB
\* it holds one record per non-blank line read, and the record of that line
\* is the Gauge named by the canonical key alone (no suffix), with node <id>
\* and value v*1024.
C1_NumaUnitLine ==
    (pc = "parseMemInfoNuma" /\ stream # <<>> /\ stream[Len(stream)] \in NumaUnitLines)
    => LET p == Fields(stream[Len(stream)])
       IN  /\ Len(numaInfo) = Len(NonBlank)
           /\ numaInfo[Len(numaInfo)] =
                  [metricName |-> ReplaceParens(TrimRight(p[3], ":")),
                   metricType |-> "Gauge", numaNode |-> p[2],
                   value |-> NumaUnitValue[stream[Len(stream)]]]

C1_Witness ==
    /\ pc = "parseMemInfoNuma"
    /\ stream = <<<<"N","o","d","e"," ","0"," ","M","e","m","F","r","e","e",":"," ","5","0","0"," ","k","B">>>>
    /\ numaInfo = <<[metricName |-> <<"M","e","m","F","r","e","e">>, metricType |-> "Gauge",
                     numaNode |-> <<"0">>, value |-> F(512000)]>>

\* C2: while parseMemInfo reads well-formed lines, and when it returns its
\* map, the map holds for every line  Key: v  the entry (Key, v) and for every
\* line  Key: v kB  the entry (Key_bytes, v*1024), a later line of the same
\* name replacing an earlier one, and it holds nothing else.
C2_MemEntries ==
    (/\ collector = "meminfo"
     /\ pc = "parseMemInfo" \/ (pc = "meminfoUpdate" /\ ~ret.isNil)
     /\ \A i \in 1..Len(NonBlank) : NonBlank[i] \in WellFormedMemLines)
    => memInfo =
          {MemEntries[NonBlank[i]] : i \in
              {i \in 1..Len(NonBlank) :
                  \A j \in (i + 1)..Len(NonBlank) :
                      MemEntries[NonBlank[j]][1] # MemEntries[NonBlank[i]][1]}}

C2_Witness ==
    /\ pc = "meminfoUpdate"
    /\ stream = <<<<"M","e","m","T","o","t","a","l",":"," ","1","2","3","4">>, <<"M","e","m","T","o","t","a","l",":"," ","1","2","3","4"," ","k","B">>>>
    /\ memInfo = {<<<<"M","e","m","T","o","t","a","l">>, F(1234)>>, <<<<"M","e","m","T","o","t","a","l","_","b","y","t","e","s">>, F(1263616)>>}

\* A non-blank line parseMemInfo is to reject: a field count other than 2 or
\* 3, or a second token that is no number.
BadMemLine(l) ==
    LET p == Fields(l)
    IN  /\ Len(p) > 0
        /\ Len(p) \notin {2, 3} \/ ParseFloat(p[2]).err

\* Such lines among those a reader can give.
BadMemLines == {l \in MemLines \cup MemKeyLines : BadMemLine(l)}

\* C3: once parseMemInfo has read a non-blank line whose field count is
\* neither 2 nor 3, or whose second token is no number, the parse has
\* returned an error and no map to its caller.
C3_BadLineIsAnError ==
    (collector = "meminfo" /\ stream # <<>> /\ stream[Len(stream)] \in BadMemLines)
    => /\ result # "panic"
       /\ ret.returned /\ ret.isNil /\ ret.err # "nil"

\* A non-blank line parseMemInfoNuma is to reject: not 4 fields, and not 5
\* fields the fifth of which is kB.
BadNumaLine(l) ==
    LET p == Fields(TrimSpace(l))
    IN  /\ Len(p) > 0
        /\ ~(Len(p) = 4 \/ (Len(p) = 5 /\ p[5] = <<"k","B">>))

\* The line read last is one the parser reading it is to reject.
LastLineMalformed ==
    /\ stream # <<>>
    /\ \/ collector = "meminfo" /\ stream[Len(stream)] \in BadMemLines
       \/ collector = "numa" /\ Scanning("meminfo") /\ BadNumaLine(stream[Len(stream)])
       \/ /\ collector = "numa" /\ Scanning("numastat")
          /\ parseMemInfoNumaStatLines[nodeNumber][stream[Len(stream)]].status
                 \in {"invalid line", "invalid value"}

\* C4: a pass in which a source failed to open, a line was malformed, a value
\* did not parse or a read failed ends with an error returned and nothing
\* sent to the channel; metrics are on the channel only in a pass that ended
\* without error.
C4_AllOrNothing ==
    /\ (ch # EmptyBag \/ sending # <<>>) => (ret.returned /\ ret.err = "nil")
    /\ (pc = "done" /\ (ret.err # "nil" \/ LastLineMalformed))
       => (result = "error" /\ ch = EmptyBag)

\* No two records of the list share metric name and node.
UniqueRecords(ms) ==
    \A i, j \in 1..Len(ms) :
        (ms[i].metricName = ms[j].metricName /\ ms[i].numaNode = ms[j].numaNode)
        => i = j

\* No two entries of the map share the name.
UniqueNames(m) == \A e1, e2 \in m : e1[1] = e2[1] => e1 = e2

\* C5, as stated: in the record set of a parse pass (the map of parseMemInfo,
\* the lists of parseMemInfoNuma and parseMemInfoNumaStat, the list
\* getMemInfoNuma returns) no two records share (name, node).
C5_AsStated ==
    /\ UniqueNames(memInfo)
    /\ UniqueRecords(numaInfo)
    /\ UniqueRecords(numaStat)
    /\ (pc = "numaUpdate" /\ ret.err = "nil") => UniqueRecords(metrics)

\* C5, amended: no two entries of the map of parseMemInfo share a name, and
\* no two metrics meminfoCollector.Update sends do, whatever the stream; the
\* NUMA parsers hold one record for every non-blank line read, a repeated key
\* included.
C5_UniqueInMap ==
    /\ UniqueNames(memInfo)
    /\ collector \in {"meminfo", "native"}
       => \A m1, m2 \in BagToSet(ch) :
             /\ CopiesIn(m1, ch) = 1
             /\ m1.name = m2.name => m1 = m2
    /\ pc = "parseMemInfoNuma" => Len(numaInfo) = Len(NonBlank)
    /\ pc = "parseMemInfoNumaStat" => Len(numaStat) = Len(NonBlank)

C5_Witness ==
    /\ pc = "done"
    /\ result = "ok"
    /\ stream = <<<<"M","e","m","T","o","t","a","l",":"," ","1","2","3","4">>, <<"M","e","m","T","o","t","a","l",":"," ","5","0","0">>>>
    /\ memInfo = {<<<<"M","e","m","T","o","t","a","l">>, F(500)>>}
    /\ BagToSet(ch) = {[subsystem |-> "memory", name |-> <<"M","e","m","T","o","t","a","l">>, kind |-> "Gauge",
                        value |-> F(500), labels |-> <<>>]}

\* C6: every metric meminfoCollector.Update sends is a Counter if its name
\* ends in _total and a Gauge otherwise; of the native map exactly the
\* page-in and page-out quantities are Counters.
C6_CounterIffTotal ==
    collector \in {"meminfo", "native"}
    => /\ \A m \in BagToSet(ch) :
             m.kind = (IF EndsInTotal(m.name) THEN "Counter" ELSE "Gauge")
       /\ (collector = "native" /\ result = "ok")
          => {m.name : m \in {x \in BagToSet(ch) : x.kind = "Counter"}}
                 = {<<"s","w","a","p","p","e","d","_","i","n","_","b","y","t","e","s","_","t","o","t","a","l">>, <<"s","w","a","p","p","e","d","_","o","u","t","_","b","y","t","e","s","_","t","o","t","a","l">>}

C6_Witness ==
    /\ collector = "meminfo"
    /\ result = "ok"
    /\ \E m \in BagToSet(ch) : m.name = <<"x","_","t","o","t","a","l">> /\ m.kind = "Counter"
    /\ \E m \in BagToSet(ch) : m.name = <<"x","_","t","o","t","a","l","_","b","y","t","e","s">> /\ m.kind = "Gauge"

\* What Update is to send for a record: the record's own kind, value, node.
AsParsed(v) ==
    [subsystem |-> "memory_numa", name |-> v.metricName, kind |-> v.metricType,
     value |-> v.value, labels |-> <<v.numaNode>>]

\* C7: every record of parseMemInfoNuma is a Gauge, whatever its name; every
\* record of parseMemInfoNumaStat is a Counter named first field + "_total"
\* with the node id passed in; and what meminfoNumaCollector.Update has sent
\* and is sending is, record by record, the kind, value and node the parser
\* gave, for every record of the pass once Update has returned nil.
C7_KindFromParser ==
    /\ \A i \in 1..Len(numaInfo) : numaInfo[i].metricType = "Gauge"
    /\ pc = "parseMemInfoNumaStat"
       => /\ Len(numaStat) = Len(NonBlank)
          /\ \A i \in 1..Len(numaStat) :
                /\ numaStat[i].metricType = "Counter"
                /\ numaStat[i].numaNode = nodeNumber
                /\ numaStat[i].metricName = Fields(NonBlank[i])[1] \o <<"_","t","o","t","a","l">>
    /\ collector = "numa"
       => /\ \A i \in 1..nsent : BagIn(AsParsed(metrics[i]), ch)
          /\ \A m \in BagToSet(ch) :
                CopiesIn(m, ch)
                    = Cardinality({i \in 1..nsent : AsParsed(metrics[i]) = m})
          /\ sending # <<>> => sending[1] = AsParsed(metrics[nsent + 1])
          /\ result = "ok" => nsent = Len(metrics)

C7_Witness ==
    /\ collector = "numa"
    /\ result = "ok"
    /\ BagIn([subsystem |-> "memory_numa", name |-> <<"x","_","t","o","t","a","l">>, kind |-> "Gauge",
              value |-> F(500), labels |-> <<<<"0">>>>], ch)
    /\ BagIn([subsystem |-> "memory_numa", name |-> <<"n","u","m","a","_","h","i","t","_","t","o","t","a","l">>, kind |-> "Counter",
              value |-> F(42), labels |-> <<<<"0">>>>], ch)

\* C8, as stated: no name in the map of parseMemInfo or in the list of
\* parseMemInfoNuma contains a parenthesis.
C8_AsStated ==
    /\ collector = "meminfo" => \A e \in memInfo : NoParens(e[1])
    /\ \A i \in 1..Len(numaInfo) : NoParens(numaInfo[i].metricName)

\* A raw key without parentheses, or with one "(" and one ")" after it.
SimpleKey(k) ==
    LET opens == {i \in 1..Len(k) : k[i] = "("}
        closes == {i \in 1..Len(k) : k[i] = ")"}
    IN  \/ opens = {} /\ closes = {}
        \/ /\ Cardinality(opens) = 1 /\ Cardinality(closes) = 1
           /\ \A o \in opens, c \in closes : o < c

\* The canonical name of a simple key that ends in one colon: the colon is
\* dropped,  p(q)r  becomes  p_qr.
SimpleName(k) ==
    LET opens == {i \in 1..Len(k) : k[i] = "("}
        closes == {i \in 1..Len(k) : k[i] = ")"}
        body == SubSeq(k, 1, Len(k) - 1)
    IN  IF opens = {} THEN body
        ELSE LET o == CHOOSE x \in opens : TRUE
                 c == CHOOSE x \in closes : TRUE
             IN  SubSeq(body, 1, o - 1) \o <<"_">> \o SubSeq(body, o + 1, c - 1)
                     \o SubSeq(body, c + 1, Len(body))

\* C8, amended: a raw key that has no parenthesis, or exactly one "(" with
\* exactly one ")" after it, gives a name without parentheses in parseMemInfo
\* and in parseMemInfoNuma: Foo(bar) gives Foo_bar, and a key without
\* parentheses is unchanged but for the colon (and the unit suffix of
\* parseMemInfo).
C8_SimpleKeysHaveNoParens ==
    /\ (collector = "meminfo" /\ pc = "parseMemInfo")
       => \A i \in 1..Len(NonBlank) :
             LET p == Fields(NonBlank[i])
                 name == SimpleName(p[1]) \o (IF Len(p) = 3 THEN <<"_","b","y","t","e","s">> ELSE <<>>)
             IN  SimpleKey(p[1])
                 => NoParens(name) /\ \E e \in memInfo : e[1] = name
    /\ pc = "parseMemInfoNuma"
       => \A i \in 1..Len(NonBlank) :
             LET p == Fields(NonBlank[i])
             IN  SimpleKey(p[3])
                 => /\ NoParens(numaInfo[i].metricName)
                    /\ numaInfo[i].metricName = SimpleName(p[3])

C8_Witness ==
    \/ /\ pc = "parseMemInfo"
       /\ stream = <<<<"A","c","t","i","v","e","(","a","n","o","n",")",":"," ","5","0","0">>>>
       /\ memInfo = {<<<<"A","c","t","i","v","e","_","a","n","o","n">>, F(500)>>}
    \/ /\ pc = "parseMemInfoNuma"
       /\ stream = <<<<"N","o","d","e"," ","0"," ","A","c","t","i","v","e","(","a","n","o","n",")",":"," ","5","0","0">>>>
       /\ numaInfo[1].metricName = <<"A","c","t","i","v","e","_","a","n","o","n">>

\* C9: once parseMemInfoNuma has read a non-blank line that has neither 4
\* fields nor 5 fields ending in kB, the parse has returned an error and no
\* records to its caller.
C9_BadNumaLineIsAnError ==
    (/\ collector = "numa" /\ Scanning("meminfo")
     /\ stream # <<>> /\ BadNumaLine(stream[Len(stream)]))
    => /\ result # "panic"
       /\ ret.returned /\ ret.isNil /\ ret.err # "nil"

\* C10: while getMemInfoNuma enumerates and parses, none of the files it
\* opened is closed; once it has returned, with metrics or with an error,
\* every file it opened has been closed exactly once.
C10_ClosedAtReturn ==
    collector = "numa"
    => /\ pc \in {"numaLoop", "parseMemInfoNuma", "numaOpenNumastat", "parseMemInfoNumaStat"}
          => \A h \in 1..Len(files) : files[h].closed = 0
       /\ pc \in {"numaUpdate", "done"}
          => \A h \in 1..Len(files) : files[h].closed = 1

C10_Witness ==
    /\ pc = "numaUpdate"
    /\ ret.err = "open"
    /\ Len(files) = 3
    /\ \A h \in 1..Len(files) : files[h].closed = 1

====
